---- MODULE Spec2Model ----
(***************************************************************************)
(* Model of the task orchestration engine of MobileClaw                    *)
(* (src/mobileclaw/agent.py): AutoAgent.execute_task, its step loop, the   *)
(* task stack, the idle counter, AutoAgent.handle_message with its lock    *)
(* and pause event, AutoAgent._conclude_task and the AgentAPI capability   *)
(* surface that step scripts call.                                         *)
(*                                                                         *)
(* Python lists are objects with identity: `heap` holds every list that    *)
(* is used as an actions_and_results history, per thread that created it,  *)
(* and a reference names the creating thread and an index.  DefaultList    *)
(* is the list object of the default argument `actions_and_results=[]` of  *)
(* execute_task, created once when the function is defined.                *)
(* Every thread (the driver thread and the chat transport threads) has a   *)
(* call stack `cs` of frames; a frame is one activation of execute_task    *)
(* or of handle_message and `pc` is its position in the code.  `ret` is    *)
(* what the last activation that ended on a thread handed to its caller.   *)
(* A step of a thread runs from one access of shared state (task stack,    *)
(* pause event, lock, idle counter, a history list) to the next.           *)
(* Faults are Python exceptions of class Exception.                        *)
(* The driver loop AutoAgent.serve with AutoAgent._adaptive_sleep is       *)
(* followed on its own in SpecServe, a top-level run being seen there by   *)
(* what it leaves in the idle counter.                                     *)
(***************************************************************************)
EXTENDS Integers, Sequences, FiniteSets, TLC

(* ------------------------------ bounds --------------------------------- *)
\* calls of execute_task and handle_message made from outside the step
\* loop (by the driver and by the chat transports), all threads together
MaxCalls == 2
\* largest max_steps an execute_task run is given (the code's defaults are
\* 30, and 10 for a conclusion run)
MaxSteps == 2
\* planner calls whose answer is free; every later planner call answers
\* with a thought and a script that sets task_status = 'finished'
MaxPlans == 1
\* cap of a history, standing for actions_and_results_max_len = 100
\* (agent.py:36)
HistMaxLen == 3
\* max_steps of a conclusion run, standing for the 10 of agent.py:137
ConcludeSteps == 1
\* largest idle count the driver loop of serve() is followed to
MaxIdle == 12

(* --------------------------- program constants ------------------------- *)
\* agent.py:228  `if _recursion_depth >= 3`
MaxDepth == 3

Driver == "D"
Transports == {"T1"}
Threads == {Driver} \cup Transports
NoThread == "none"

\* A reference to a list object: the thread that created it and its number
\* among the lists of that thread.
Ref(o, i) == [o |-> o, i |-> i]
\* reference that is not a list: AgentAPI.execute_task passes its integer
\* max_steps in the position of actions_and_results
NotAList == Ref(NoThread, 0)
\* the list object of the default argument actions_and_results=[]
DefaultList == Ref(Driver, 1)

\* runs are numbered per thread: RunBase(t) + the number of the call
RunBase(t) == IF t = Driver THEN 0 ELSE 100

JobTask == <<"job">>
MsgTask == <<"msg">>
\* agent.py:132 the description of a conclusion run embeds the task's
ConcludeSummary(task) == <<"review">> \o task

VARIABLES heap, stack, idle, gate, handling, lock, cs, ret, nextRun, ncalls, planned,
          slept, spc, enabled

vars == <<heap, stack, idle, gate, handling, lock, cs, ret, nextRun, ncalls, planned,
          slept, spc>>

(* ------------------------------ records -------------------------------- *)
\* one entry of a history or of a result list: its kind, the run that made
\* it and the step of that run
Rec(k, run, step) == [k |-> k, run |-> run, step |-> step]

\* agent.py:328  an error record carries the text of the exception: e is
\* "script" for a fault of the script's own code, "mode" for the refusal of
\* an operation by the mode check, "call" for a fault of a call it made
ErrRec(e, run, step) == [k |-> "error", run |-> run, step |-> step, e |-> e]
Causes == {"script", "mode", "call"}

\* list returned at agent.py:230
DepthError(run) == <<Rec("ErrorMaxDepth", run, -1)>>
\* list returned at agent.py:418
HandleError(run) == <<Rec("ErrorHandling", run, -1)>>

NoPend == [out |-> "none", val |-> <<>>]

\* activation record of execute_task (kind "exec") or handle_message
\* (kind "hm").  given is the content of params['actions_and_results'] at
\* the last planner call, warned that _conclude_task logged the warning of
\* its except clause.  plans, execs and waits count the planner calls, the script
\* executions and the blocking waits of the run; in a handle_message
\* activation src is the list it copied and seed the content of the copy
Frame(kind, pc, task, ar, maxSteps, depth, mode, run) ==
    [kind |-> kind, pc |-> pc, task |-> task, ar |-> ar, maxSteps |-> maxSteps,
     depth |-> depth, mode |-> mode, run |-> run,
     step |-> -1, finished_step |-> -1, status |-> "ongoing", code |-> "none",
     results |-> <<>>, bound |-> {}, plans |-> 0, execs |-> 0, waits |-> 0,
     pend |-> NoPend, src |-> NotAList, seed |-> <<>>, given |-> <<>>, warned |-> FALSE]

NoFrame == Frame("none", "none", <<>>, NotAList, 0, 0, "none", 0)

Depth(t) == Len(cs[t])
Top(t) == cs[t][Len(cs[t])]
Running(t) == Len(cs[t]) > 0
At(t, kind, pc) == Running(t) /\ Top(t).kind = kind /\ Top(t).pc = pc

SetTop(t, f) == [cs EXCEPT ![t] = [@ EXCEPT ![Len(@)] = f]]
PushFrame(t, f, g) == [cs EXCEPT ![t] = Append([@ EXCEPT ![Len(@)] = f], g)]
PopFrame(t) == [cs EXCEPT ![t] = SubSeq(@, 1, Len(@) - 1)]

\* list.append on the list object r
HeapGet(h, r) == h[r.o][r.i]
HeapAppend(h, r, x) == [h EXCEPT ![r.o][r.i] = Append(@, x)]
\* thread t creates a new list object with content s; NewRef is its reference
HeapAlloc(h, t, s) == [h EXCEPT ![t] = Append(@, s)]
NewRef(h, t) == Ref(t, Len(h[t]) + 1)

(* ------------------------------- Init ---------------------------------- *)
Init ==
    /\ heap = [t \in Threads |-> IF t = Driver THEN << <<>> >> ELSE <<>>]
    /\ stack = <<>>
    /\ idle = 0
    /\ gate = TRUE
    /\ handling = FALSE
    /\ lock = NoThread
    /\ cs = [t \in Threads |-> <<>>]
    /\ ret = [t \in Threads |-> [out |-> "none", val |-> <<>>, fr |-> NoFrame]]
    /\ nextRun = [t \in Threads |-> 1]
    /\ ncalls = 0
    /\ planned = 0
    /\ slept = 0
    /\ spc = "run"
    /\ enabled = TRUE

(* ------------------------- pure helper functions ----------------------- *)
\* a nested call made at the depth of its caller
NestedDepthSame(d) == d

\* agent.py:137 and 836  _recursion_depth + 1
NestedDepth(d) == d + 1

\* the depth check written with > in place of >=
DepthExceededOffByOne(d) == d > MaxDepth

\* agent.py:228
DepthExceeded(d) == d >= MaxDepth

\* the cut keeping the oldest entries
FirstN(s, n) == IF Len(s) > n THEN SubSeq(s, 1, n) ELSE s

\* agent.py:273  actions_and_results[-max_len:]
LastN(s, n) == IF Len(s) > n THEN SubSeq(s, Len(s) - n + 1, Len(s)) ELSE s

\* agent.py:272  the condition under which the history is cut
NeedsTrim(s) == Len(s) > HistMaxLen

\* agent.py:333  the condition of the step-limit report
LimitReached(step, maxSteps) == step + 1 >= maxSteps

\* agent.py:341  the run is idle when it finished in step 0
IsIdle(finished_step) == finished_step = 0

\* the mode check that lets message runs through
RestrictedOnlyConclusion(mode) == mode = "conclude_task"

\* AgentAPI.do_with_device / AgentAPI.execute_task mode check
Restricted(mode) == mode \in {"handle_message", "conclude_task"}

\* the wait made in the wrong mode
WaitsOnGateWrongMode(mode) == mode = "handle_message"

\* the wait made in every mode
WaitsOnGateAlways(mode) == TRUE

\* agent.py:266  only a normal run waits on the pause event
WaitsOnGate(mode) == mode = "normal"

\* the pop check made against the bottom of the stack
PopsEntryBottom(stk, task) == Len(stk) > 0 /\ stk[1].task = task

\* agent.py:357  the condition under which the finally block pops
PopsEntry(stk, task) == Len(stk) > 0 /\ stk[Len(stk)].task = task

\* get_current_task_info: top of the task stack, or (None, [])
CurrentTask(stk) == IF Len(stk) = 0 THEN <<>> ELSE stk[Len(stk)].task
CurrentHistory(h, stk) == IF Len(stk) = 0 THEN <<>> ELSE HeapGet(h, stk[Len(stk)].ar)

\* agent.py:402  the description built for a message names the current task
HandleDescription(cur) == MsgTask \o cur

\* the _recursion_depth values callers pass: the top level, the deepest
\* level that still runs, and the first level that is refused
CallDepths == {0, MaxDepth - 1, MaxDepth}
\* the max_steps values callers pass
CallSteps == {1, MaxSteps}

\* what the planner can hand back: the code of one step.  "none" is the
\* empty code of a failed planner call
Scripts == {"noop", "finish", "fail", "infeasible", "record", "record_finish", "raise",
            "record_raise", "device", "subtask", "hm"}
Codes == Scripts \cup {"none"}
\* (thought, code) pairs of fm.call_func('task_step'): a failed call gives
\* two empty strings
Answers == ({TRUE} \X Codes) \cup {<<FALSE, "none">>}

(* --------------------------- frame transfer ---------------------------- *)
\* the activation on top of t's call stack ends: out is "ret" or "exc"
Return(t, f, out, val) ==
    /\ cs' = PopFrame(t)
    /\ ret' = [ret EXCEPT ![t] = [out |-> out, val |-> val, fr |-> f]]

Consumed(t) == [ret EXCEPT ![t] = [out |-> "none", val |-> <<>>, fr |-> NoFrame]]

(* ------------------------------ execute_task --------------------------- *)
\* serve() and other callers: execute_task(task, max_steps=m,
\* _recursion_depth=d) on the driver thread, history left to its default
ExecuteCall(t, m, d) ==
    /\ t = Driver /\ ~Running(t) /\ ncalls < MaxCalls
    /\ cs' = [cs EXCEPT ![t] =
                <<Frame("exec", "start", JobTask, DefaultList, m, d, "normal", RunBase(t) + nextRun[t])>>]
    /\ ret' = Consumed(t)
    /\ nextRun' = [nextRun EXCEPT ![t] = @ + 1]
    /\ ncalls' = ncalls + 1
    /\ UNCHANGED <<heap, stack, idle, gate, handling, lock, planned, slept, spc, enabled>>

\* agent.py:264-267  head of the for loop: next value of step, then the
\* wait on the pause event, which returns at once when the event is set
LoopHead(f, g) ==
    IF f.step + 1 >= f.maxSteps
    THEN [f EXCEPT !.pc = "after"]
    ELSE IF WaitsOnGate(f.mode) /\ ~g
         THEN [f EXCEPT !.step = @ + 1, !.waits = @ + 1, !.pc = "gatewait"]
         ELSE [f EXCEPT !.step = @ + 1, !.pc = "plan"]

\* agent.py:227-267  depth check, start record, push on the task stack,
\* entry of the loop
ExecStart(t) ==
    /\ At(t, "exec", "start")
    /\ LET f == Top(t) IN
       IF DepthExceeded(f.depth)
       THEN /\ Return(t, f, "ret", DepthError(f.run))
            /\ UNCHANGED <<heap, stack>>
       ELSE IF f.ar = NotAList
       THEN \* int has no append: the fault leaves before the try block
            /\ Return(t, f, "exc", <<>>)
            /\ UNCHANGED <<heap, stack>>
       ELSE /\ heap' = HeapAppend(heap, f.ar, Rec("start", f.run, -1))
            /\ stack' = Append(stack, [task |-> f.task, ar |-> f.ar])
            /\ cs' = SetTop(t, LoopHead(f, gate))
            /\ UNCHANGED ret
    /\ UNCHANGED <<idle, gate, handling, lock, nextRun, ncalls, planned, slept, spc, enabled>>

\* the empty script taken as the end of the run
StepEmptyEnds(f, g) == [f EXCEPT !.pc = "after"]

\* agent.py:296-298  no code: one warning record, then `continue`
StepEmpty(f, g) == LoopHead(f, g)

\* agent.py:269-301  trim, planner call, thought / warning / action records
ExecPlan(t, thought, code) ==
    /\ At(t, "exec", "plan")
    /\ <<thought, code>> \in Answers
    /\ planned >= MaxPlans => (thought /\ code = "finish")
    /\ planned' = IF planned < MaxPlans THEN planned + 1 ELSE planned
    /\ LET f  == Top(t)
           cut == NeedsTrim(HeapGet(heap, f.ar))
           h1 == IF cut THEN HeapAlloc(heap, t, LastN(HeapGet(heap, f.ar), HistMaxLen)) ELSE heap
           ar == IF cut THEN NewRef(heap, t) ELSE f.ar
           h2 == IF thought THEN HeapAppend(h1, ar, Rec("thought", f.run, f.step)) ELSE h1
           g  == [f EXCEPT !.ar = ar, !.plans = @ + 1, !.given = HeapGet(h1, ar)]
       IN
       IF code = "none"
       THEN /\ heap' = HeapAppend(h2, ar, Rec("warning", f.run, f.step))
            /\ cs' = SetTop(t, StepEmpty(g, gate))
       ELSE /\ heap' = HeapAppend(h2, ar, Rec("action", f.run, f.step))
            /\ cs' = SetTop(t, [g EXCEPT !.code = code, !.pc = "exec"])
    /\ UNCHANGED <<stack, idle, gate, handling, lock, ret, nextRun, ncalls, slept, spc, enabled>>

\* the scope replaced by the names of the last step
MergeReplaces(b, names) == names

\* agent.py:316-319  the names a script bound are added to current_vars
Merge(b, names) == b \cup names

\* only 'finished' taken as the end of the loop
TerminalOnlyFinished(st) == st = "finished"

\* agent.py:322  any task_status other than 'ongoing' ends the loop
Terminal(st) == st # "ongoing"

\* agent.py:316-325  the script ended without fault and left task_status st
StepDone(f, st, res, names, g) ==
    LET f1 == [f EXCEPT !.status = st, !.results = res, !.bound = Merge(@, names),
                        !.code = "none"]
    IN IF Terminal(st)
       THEN [f1 EXCEPT !.finished_step = IF st = "finished" THEN f.step ELSE @,
                       !.pc = "after"]
       ELSE LoopHead(f1, g)

\* the except clause ending the loop (break) in place of continue
StepFaultBreaks(f, g) == [f EXCEPT !.code = "none", !.pc = "after"]

\* agent.py:327-331  a fault of the script: one error record, next step
StepFault(f, g) == LoopHead([f EXCEPT !.code = "none"], g)

\* agent.py:303-331 with the AgentAPI operations a script calls
ExecScript(t) ==
    /\ At(t, "exec", "exec")
    /\ LET f == [Top(t) EXCEPT !.execs = @ + 1]
           faultOf(f1, e) == /\ heap' = HeapAppend(heap, f.ar, ErrRec(e, f.run, f.step))
                             /\ cs' = SetTop(t, StepFault(f1, gate))
                             /\ UNCHANGED nextRun
           fault(e) == faultOf(f, e)
           done(st, res) == /\ cs' = SetTop(t, StepDone(f, st, res, {f.code}, gate))
                            /\ UNCHANGED <<heap, nextRun>>
       IN
       CASE f.code = "noop"   -> done("ongoing", f.results)
         [] f.code = "finish" -> done("finished", f.results)
         [] f.code = "fail"   -> done("failed", f.results)
         [] f.code = "infeasible" -> done("infeasible", f.results)
         [] f.code = "record" -> done("ongoing", Append(f.results, Rec("result", f.run, f.step)))
         [] f.code = "record_finish" ->
              done("finished", Append(f.results, Rec("result", f.run, f.step)))
         [] f.code = "raise"  -> fault("script")
         [] f.code = "record_raise" ->
              \* agent.py:864  the result is in the list of the API object
              \* before the script raises
              faultOf([f EXCEPT !.results = Append(@, Rec("result", f.run, f.step))], "script")
         [] f.code = "device" -> IF Restricted(f.mode) THEN fault("mode") ELSE done("ongoing", f.results)
         [] f.code = "subtask" ->
              IF Restricted(f.mode) THEN fault("mode")
              ELSE \* agent.py:836  max_steps lands in actions_and_results
                   /\ cs' = PushFrame(t, [f EXCEPT !.pc = "callwait"],
                              Frame("exec", "start", <<"sub">>, NotAList, MaxSteps,
                                    NestedDepth(f.depth), "normal", RunBase(t) + nextRun[t]))
                   /\ nextRun' = [nextRun EXCEPT ![t] = @ + 1]
                   /\ UNCHANGED heap
         [] f.code = "hm" ->
              /\ cs' = PushFrame(t, [f EXCEPT !.pc = "callwait"],
                         Frame("hm", "acquire", MsgTask, NotAList, 0, 0, "none", RunBase(t) + nextRun[t]))
              /\ nextRun' = [nextRun EXCEPT ![t] = @ + 1]
              /\ UNCHANGED heap
    /\ UNCHANGED <<stack, idle, gate, handling, lock, ret, ncalls, planned, slept, spc, enabled>>

\* the call a script made has returned or raised into the script
ExecCallReturn(t) ==
    /\ At(t, "exec", "callwait")
    /\ LET f == Top(t) IN
       IF ret[t].out = "exc"
       THEN /\ heap' = HeapAppend(heap, f.ar, ErrRec("call", f.run, f.step))
            /\ cs' = SetTop(t, StepFault(f, gate))
       ELSE /\ cs' = SetTop(t, StepDone(f, "ongoing", f.results, {f.code}, gate))
            /\ UNCHANGED heap
    /\ ret' = Consumed(t)
    /\ UNCHANGED <<stack, idle, gate, handling, lock, nextRun, ncalls, planned, slept, spc, enabled>>

\* a run returning nothing
ReturnedNone(f) == <<>>

\* agent.py:337 and 354  results = agent_api._results ... return results
Returned(f) == f.results

\* agent.py:333-352 and 118-137  step-limit report, idle accounting, then
\* for a normal run that was not idle _conclude_task: a run in
\* conclude_task mode on a copy of the history
ExecAfter(t) ==
    /\ At(t, "exec", "after")
    /\ LET f == Top(t) IN
       IF LimitReached(f.step, f.maxSteps)
       THEN \* agent.py:334  `self.agent` is not an attribute of AutoAgent
            /\ cs' = SetTop(t, [f EXCEPT !.pend = [out |-> "exc", val |-> <<>>], !.pc = "finally"])
            /\ UNCHANGED <<idle, heap, nextRun>>
       ELSE /\ idle' = IF f.depth = 0
                       THEN (IF IsIdle(f.finished_step) THEN idle + 1 ELSE 0)
                       ELSE idle
            /\ IF f.mode = "normal" /\ ~IsIdle(f.finished_step)
               THEN /\ heap' = HeapAlloc(heap, t, HeapGet(heap, f.ar))
                    /\ cs' = PushFrame(t, [f EXCEPT !.pend = [out |-> "ret", val |-> Returned(f)],
                                                    !.pc = "concwait"],
                                Frame("exec", "start", ConcludeSummary(f.task), NewRef(heap, t),
                                      ConcludeSteps, NestedDepth(f.depth), "conclude_task",
                                      RunBase(t) + nextRun[t]))
                    /\ nextRun' = [nextRun EXCEPT ![t] = @ + 1]
               ELSE /\ cs' = SetTop(t, [f EXCEPT !.pend = [out |-> "ret", val |-> Returned(f)],
                                                 !.pc = "finally"])
                    /\ UNCHANGED <<heap, nextRun>>
    /\ UNCHANGED <<stack, gate, handling, lock, ret, ncalls, planned, slept, spc, enabled>>

\* agent.py:355-358  the finally block
PopOwn(stk, task) == IF PopsEntry(stk, task) THEN SubSeq(stk, 1, Len(stk) - 1) ELSE stk

\* _conclude_task without its except clause
ConcludeOutcomePropagates(out, pend) ==
    IF out = "exc" THEN [out |-> "exc", val |-> <<>>] ELSE pend

\* agent.py:139-141  a fault of the conclusion run is logged and dropped:
\* the run goes on to `return results`
ConcludeOutcome(out, pend) == pend

\* agent.py:139-141 and 354-358  whatever the conclusion run did, the run
\* returns its results through the finally block
ExecConcReturn(t) ==
    /\ At(t, "exec", "concwait")
    /\ LET f == [Top(t) EXCEPT !.warned = (ret[t].out = "exc")]
           o == ConcludeOutcome(ret[t].out, f.pend)
       IN
       /\ stack' = PopOwn(stack, f.task)
       /\ Return(t, f, o.out, o.val)
    /\ UNCHANGED <<heap, idle, gate, handling, lock, nextRun, ncalls, planned, slept, spc, enabled>>

\* agent.py:355-358  the finally block, then the return or the raise
ExecFinally(t) ==
    /\ At(t, "exec", "finally")
    /\ LET f == Top(t) IN
       /\ stack' = PopOwn(stack, f.task)
       /\ Return(t, f, f.pend.out, f.pend.val)
    /\ UNCHANGED <<heap, idle, gate, handling, lock, nextRun, ncalls, planned, slept, spc, enabled>>

(* ----------------------------- handle_message -------------------------- *)
\* a chat transport thread delivers a message
HandleCall(t) ==
    /\ t \in Transports /\ ~Running(t) /\ ncalls < MaxCalls
    /\ cs' = [cs EXCEPT ![t] =
                <<Frame("hm", "acquire", MsgTask, NotAList, 0, 0, "none", RunBase(t) + nextRun[t])>>]
    /\ ret' = Consumed(t)
    /\ nextRun' = [nextRun EXCEPT ![t] = @ + 1]
    /\ ncalls' = ncalls + 1
    /\ UNCHANGED <<heap, stack, idle, gate, handling, lock, planned, slept, spc, enabled>>

\* handle_message without its lock
CanAcquireAlways(l) == TRUE

\* agent.py:375  threading.Lock is not reentrant: it is acquired only
\* when nobody holds it
CanAcquire(l) == l = NoThread

\* agent.py:375
HandleAcquire(t) ==
    /\ At(t, "hm", "acquire")
    /\ CanAcquire(lock)
    /\ lock' = t
    /\ cs' = SetTop(t, [Top(t) EXCEPT !.pc = "clear"])
    /\ UNCHANGED <<heap, stack, idle, gate, handling, ret, nextRun, ncalls, planned, slept, spc, enabled>>

\* agent.py:378-379
HandleClear(t) ==
    /\ At(t, "hm", "clear")
    /\ gate' = FALSE
    /\ handling' = TRUE
    /\ cs' = SetTop(t, [Top(t) EXCEPT !.pc = "info"])
    /\ UNCHANGED <<heap, stack, idle, lock, ret, nextRun, ncalls, planned, slept, spc, enabled>>

\* agent.py:385  the list of the entry on top of the task stack
CurrentRef(stk) == IF Len(stk) = 0 THEN NotAList ELSE stk[Len(stk)].ar

\* the handler given the live list of the running task instead of a copy
SnapshotRefAlias(h, t, stk) == IF Len(stk) = 0 THEN NewRef(h, t) ELSE stk[Len(stk)].ar

\* agent.py:386  copy.copy makes a new list object: the reference the
\* handler's run is given
SnapshotRef(h, t, stk) == NewRef(h, t)

\* agent.py:384-411  current task, copy of its history, run in handle_message mode
HandleExecute(t) ==
    /\ At(t, "hm", "info")
    /\ LET f == Top(t)
           r == SnapshotRef(heap, t, stack)
       IN
       /\ heap' = HeapAlloc(heap, t, CurrentHistory(heap, stack))
       /\ cs' = PushFrame(t, [f EXCEPT !.pc = "wait", !.ar = r, !.src = CurrentRef(stack),
                                       !.seed = CurrentHistory(heap, stack)],
                   Frame("exec", "start", HandleDescription(CurrentTask(stack)), r,
                         MaxSteps, 0, "handle_message", f.run))
    /\ UNCHANGED <<stack, idle, gate, handling, lock, ret, nextRun, ncalls, planned, slept, spc, enabled>>

\* threading.Event.set: every thread waiting in wait() is woken
Released(c) ==
    [u \in Threads |->
        IF Len(c[u]) > 0 /\ c[u][Len(c[u])].kind = "exec" /\ c[u][Len(c[u])].pc = "gatewait"
        THEN [c[u] EXCEPT ![Len(c[u])].pc = "plan"]
        ELSE c[u]]

\* handle_message without its except clause
HandleOutcomePropagates(out, val, run) == [out |-> out, val |-> val]

\* agent.py:412-418  what the call hands to its caller: the results of the
\* run, or for a fault of the run a one-element list
HandleOutcome(out, val, run) ==
    IF out = "exc" THEN [out |-> "ret", val |-> HandleError(run)]
    ELSE [out |-> "ret", val |-> val]

\* the event set on the normal path only
GateOnExitNoFault(out) == out # "exc"

\* agent.py:420-423  the finally block sets the event on every outcome
GateOnExit(out) == TRUE

\* agent.py:412-423  the results, or the fault turned into a one-element
\* list; then the finally block sets the event
HandleReturn(t) ==
    /\ At(t, "hm", "wait")
    /\ gate' = GateOnExit(ret[t].out)
    /\ LET f == Top(t)
           c == SetTop(t, [f EXCEPT !.pc = "release",
                                    !.pend = HandleOutcome(ret[t].out, ret[t].val, f.run)])
       IN cs' = IF gate' /\ ~gate THEN Released(c) ELSE c
    /\ handling' = FALSE
    /\ ret' = Consumed(t)
    /\ UNCHANGED <<heap, stack, idle, lock, nextRun, ncalls, planned, slept, spc, enabled>>

\* end of the with block: the lock is released, the call returns
HandleRelease(t) ==
    /\ At(t, "hm", "release")
    /\ lock' = NoThread
    /\ Return(t, Top(t), Top(t).pend.out, Top(t).pend.val)
    /\ UNCHANGED <<heap, stack, idle, gate, handling, nextRun, ncalls, planned, slept, spc, enabled>>

(* ------------------------------ specification -------------------------- *)
Next ==
    \/ \E t \in Threads, m \in CallSteps, d \in CallDepths : ExecuteCall(t, m, d)
    \/ \E t \in Threads : ExecStart(t)
    \/ \E t \in Threads, thought \in BOOLEAN, code \in Codes : ExecPlan(t, thought, code)
    \/ \E t \in Threads : ExecScript(t)
    \/ \E t \in Threads : ExecCallReturn(t)
    \/ \E t \in Threads : ExecAfter(t)
    \/ \E t \in Threads : ExecConcReturn(t)
    \/ \E t \in Threads : ExecFinally(t)
    \/ \E t \in Threads : HandleCall(t)
    \/ \E t \in Threads : HandleAcquire(t)
    \/ \E t \in Threads : HandleClear(t)
    \/ \E t \in Threads : HandleExecute(t)
    \/ \E t \in Threads : HandleReturn(t)
    \/ \E t \in Threads : HandleRelease(t)

Spec == Init /\ [][Next]_vars

(* ------------------------------- serve --------------------------------- *)
\* the sleep without its upper limit
SleepTimeUncapped(k) == 2 ^ k

\* agent.py:63  min(2 ** self._idle_task_count, 600)
SleepTime(k) == IF 2 ^ k < 600 THEN 2 ^ k ELSE 600

\* the driver loop taken up after any number of idle runs
InitServe ==
    /\ heap = [t \in Threads |-> IF t = Driver THEN << <<>> >> ELSE <<>>]
    /\ stack = <<>>
    /\ idle \in 0..MaxIdle
    /\ gate = TRUE
    /\ handling = FALSE
    /\ lock = NoThread
    /\ cs = [t \in Threads |-> <<>>]
    /\ ret = [t \in Threads |-> [out |-> "none", val |-> <<>>, fr |-> NoFrame]]
    /\ nextRun = [t \in Threads |-> 1]
    /\ ncalls = 0
    /\ planned = 0
    /\ slept = 0
    /\ spc = "run"
    /\ enabled = TRUE

\* agent.py:70-71 with 339-348  one top-level run of serve(), seen by what
\* it leaves in the idle counter: one more for an idle run, 0 for another
ServeRun(idleRun) ==
    /\ spc = "run" /\ enabled
    /\ idleRun => idle < MaxIdle
    /\ idle' = IF idleRun THEN idle + 1 ELSE 0
    /\ spc' = "sleep"
    /\ UNCHANGED <<heap, stack, gate, handling, lock, cs, ret, nextRun, ncalls, planned,
                   slept, enabled>>

\* agent.py:72 with 58-64  _adaptive_sleep; slept is the time handed to _sleep
ServeSleep ==
    /\ spc = "sleep"
    /\ slept' = SleepTime(idle)
    /\ spc' = "run"
    /\ UNCHANGED <<heap, stack, idle, gate, handling, lock, cs, ret, nextRun, ncalls, planned,
                   enabled>>

\* agent.py:52-53  stop(), called from another thread at any time
ServeStop ==
    /\ enabled
    /\ enabled' = FALSE
    /\ UNCHANGED <<heap, stack, idle, gate, handling, lock, cs, ret, nextRun, ncalls, planned,
                   slept, spc>>

\* agent.py:70  the loop ends when it finds _enabled false
ServeExit ==
    /\ spc = "run" /\ ~enabled
    /\ spc' = "done"
    /\ UNCHANGED <<heap, stack, idle, gate, handling, lock, cs, ret, nextRun, ncalls, planned,
                   slept, enabled>>

NextServe ==
    \/ \E idleRun \in BOOLEAN : ServeRun(idleRun)
    \/ ServeSleep
    \/ ServeStop
    \/ ServeExit

SpecServe == InitServe /\ [][NextServe]_vars

(* ------------------------------- claims -------------------------------- *)
\* every activation on any call stack, and the last one that ended
Frames == UNION {{cs[t][i] : i \in 1..Len(cs[t])} : t \in Threads}
Ended(t) == ret[t].out # "none"
NoTransportCalled == \A u \in Transports : nextRun[u] = 1

\* records of kind k that run made in the sequence s
CountOf(s, k, run) == Cardinality({i \in 1..Len(s) : s[i].k = k /\ s[i].run = run})

\* an execute_task run that has ended after its loop used up max_steps
\* with task_status still 'ongoing'
Exhausted(t) ==
    /\ Ended(t) /\ ret[t].fr.kind = "exec" /\ ret[t].fr.pc # "start"
    /\ ret[t].fr.status = "ongoing"

\* C1: a call of execute_task with depth >= 3 is answered in one step with
\* the synthetic failure list, without a planner call or a script execution,
\* and the task stack, every history, the idle counter, the pause event and
\* the message lock are left as they were.
C1_DepthRefusal ==
    [][\A t \in Threads :
         (At(t, "exec", "start") /\ Top(t).depth >= 3 /\ cs'[t] # cs[t]) =>
            /\ Len(cs'[t]) = Len(cs[t]) - 1
            /\ ret'[t].out = "ret"
            /\ ret'[t].val = DepthError(Top(t).run)
            /\ ret'[t].fr.plans = 0 /\ ret'[t].fr.execs = 0
            /\ UNCHANGED <<stack, heap, idle, gate, handling, lock>>]_vars

\* a top-level call at depth 3 has been refused
C1_Witness ==
    \E t \in Threads :
        /\ ~Running(t) /\ ret[t].out = "ret" /\ ret[t].fr.kind = "exec"
        /\ ret[t].fr.depth >= 3 /\ ret[t].val = DepthError(ret[t].fr.run)

\* C2 (as claimed): a run whose planner never set a terminal outcome has
\* made exactly max_steps planner calls and its history holds exactly one
\* step-limit record of that run.
C2_StepLimitRecord ==
    \A t \in Threads :
        Exhausted(t) =>
            /\ ret[t].fr.plans = ret[t].fr.maxSteps
            /\ CountOf(HeapGet(heap, ret[t].fr.ar), "limit", ret[t].fr.run) = 1

\* C3 (as claimed): a run that used up its step budget ends by returning
\* the results recorded so far; no fault reaches the caller.
C3_ExhaustedReturns ==
    \A t \in Threads :
        Exhausted(t) => (ret[t].out = "ret" /\ ret[t].val = ret[t].fr.results)

\* tasks of the runs on t's call stack that are past their push
PushedTasks(t) ==
    LET fs == SelectSeq(cs[t], LAMBDA f : f.kind = "exec" /\ f.pc # "start")
    IN [i \in 1..Len(fs) |-> fs[i].task]
StackTasks == [i \in 1..Len(stack) |-> stack[i].task]

\* C4: with all calls made on one thread, the task stack holds exactly one
\* entry for each run that is past its push and has not yet left, in call
\* order: a run pushes one entry before its first step, and whenever a run
\* returns or raises (terminal outcome, step budget, fault) its entry is
\* gone and the stack is as it was when the run was called.
C4_StackDiscipline ==
    NoTransportCalled => StackTasks = PushedTasks(Driver)

\* on one thread a run with a nested run has ended by a fault, one by a
\* return, and the stack is empty again
C4_Witness ==
    /\ NoTransportCalled /\ ~Running(Driver) /\ ncalls = 2
    /\ nextRun[Driver] > 3
    /\ ret[Driver].out = "exc" /\ ret[Driver].fr.pc = "finally"
    /\ stack = <<>>

TopOf(c, t) == c[t][Len(c[t])]
IsHandler(f) == f.kind = "hm"
\* a handle_message call that has closed the gate and not yet reopened it
Handling == \E f \in Frames : IsHandler(f) /\ f.pc \in {"info", "wait"}
\* a handle_message call that holds the message lock
Processing(f) == IsHandler(f) /\ f.pc \in {"clear", "info", "wait", "release"}
NormalTop(t) == Running(t) /\ Top(t).kind = "exec" /\ Top(t).mode = "normal"

\* C5: while a handle_message call is between closing and reopening the
\* gate, a normal run that comes to the head of its loop blocks there; a
\* blocked run leaves the wait only in the step in which a handle_message
\* call reopens the gate on its exit, and that step releases every run that
\* is blocked, each to the planner call of its step.
C5_GateBlocks ==
    [][\A t \in Threads :
         /\ (At(t, "exec", "gatewait") /\ cs'[t] # cs[t]) =>
               /\ ~gate /\ gate'
               /\ Len(cs'[t]) = Len(cs[t]) /\ TopOf(cs', t).pc = "plan"
               /\ \E h \in Threads : At(h, "hm", "wait") /\ TopOf(cs', h).pc = "release"
         /\ (At(t, "exec", "gatewait") /\ ~gate /\ gate') => cs'[t] # cs[t]
         /\ (Handling /\ NormalTop(t) /\ Len(cs'[t]) = Len(cs[t])
               /\ TopOf(cs', t).step = Top(t).step + 1) =>
               TopOf(cs', t).pc = "gatewait"]_vars

\* a normal run that blocked at the gate is at its planner call, the
\* handle_message call that released it is on its way out
C5_Witness ==
    \E t, h \in Threads :
        /\ At(t, "exec", "plan") /\ Top(t).mode = "normal" /\ Top(t).waits > 0
        /\ At(h, "hm", "release") /\ gate

\* C6: the gate is closed exactly while some handle_message call is between
\* its clear() and its finally block; the message lock is held exactly by a
\* call between its acquisition and its release; a run is blocked at the
\* gate only while a message is being handled.
C6_GateClosedWhileHandling ==
    /\ gate = ~Handling
    /\ handling = Handling
    /\ (lock # NoThread) = (\E f \in Frames : Processing(f))
    /\ \A t \in Threads :
          /\ lock = t => \E i \in 1..Len(cs[t]) : Processing(cs[t][i])
          /\ At(t, "exec", "gatewait") => Handling

\* a handle_message call whose run raised has returned: the gate is open,
\* the lock is free
C6_Witness ==
    \E h \in Threads :
        /\ ~Running(h) /\ ret[h].fr.kind = "hm" /\ ret[h].fr.pc = "release"
        /\ ret[h].val = HandleError(ret[h].fr.run)
        /\ gate /\ lock = NoThread

\* C7: at most one handle_message call is past the acquisition of the lock
\* and before its release, over all threads and all nestings.
C7_OneMessageAtATime ==
    Cardinality({p \in UNION {{<<t, i>> : i \in 1..Len(cs[t])} : t \in Threads} :
                    Processing(cs[p[1]][p[2]])}) <= 1

\* one caller waits for the lock while the call of another thread holds it
C7_Witness ==
    \E t \in Threads : At(t, "hm", "acquire") /\ lock \notin {NoThread, t}

\* C8: a run in handle_message or conclude_task mode is never blocked at the
\* gate and has never waited on it.
C8_RestrictedNeverWaits ==
    \A f \in Frames :
        (f.kind = "exec" /\ f.mode \in {"handle_message", "conclude_task"}) =>
            (f.pc # "gatewait" /\ f.waits = 0)

\* the run started by handle_message executes a script while the gate is closed
C8_Witness ==
    \E t \in Threads :
        /\ At(t, "exec", "exec") /\ Top(t).mode = "handle_message"
        /\ Top(t).step = 1 /\ ~gate

\* C9: when the run started by handle_message raises, the call hands a
\* one-element list to its caller; a handle_message call always ends by a
\* return, never by a raise.
C9_FaultsConverted ==
    [][\A t \in Threads :
         /\ (At(t, "hm", "wait") /\ ret[t].out = "exc" /\ cs'[t] # cs[t]) =>
               /\ TopOf(cs', t).pend.out = "ret"
               /\ Len(TopOf(cs', t).pend.val) = 1
         /\ (At(t, "hm", "release") /\ cs'[t] # cs[t]) =>
               /\ ret'[t].out = "ret"
               /\ ret'[t].val = Top(t).pend.val]_vars

\* a handle_message call has returned the one-element error list
C9_Witness ==
    \E t \in Threads :
        /\ ret[t].out = "ret" /\ ret[t].fr.kind = "hm"
        /\ Len(ret[t].val) = 1 /\ ret[t].val[1].k = "ErrorHandling"

Elems(q) == {q[i] : i \in 1..Len(q)}
\* content of the list r refers to; nothing when r is not a list
ListAt(r) == IF r = NotAList THEN <<>> ELSE HeapGet(heap, r)
\* handle_message calls that have made their copy, running or ended
Handlers ==
    {f \in Frames : IsHandler(f) /\ f.pc \in {"wait", "release"}}
      \cup {ret[t].fr : t \in {u \in Threads : ret[u].fr.kind = "hm"}}
\* lists that hold the history of the run of handler h: its copy, and the
\* list its run works on now
HandlerLists(h) ==
    {h.ar} \cup {f.ar : f \in {g \in Frames : g.kind = "exec" /\ g.run = h.run}}

\* C10: handle_message starts its run in handle_message mode at depth 0 on
\* a list that is not the list it read from the task stack; no record of the
\* handler's run is in that list or in the history of a normal run, and
\* every record in the handler's history that is not its own was in the
\* copy when it was taken.
C10_SnapshotCopy ==
    /\ \A t \in Threads : \A i \in 1..Len(cs[t]) :
          (IsHandler(cs[t][i]) /\ i < Len(cs[t])) =>
              /\ cs[t][i+1].kind = "exec" /\ cs[t][i+1].mode = "handle_message"
              /\ cs[t][i+1].depth = 0 /\ cs[t][i+1].run = cs[t][i].run
    /\ \A h \in Handlers :
          /\ h.ar # h.src
          /\ h.src # NotAList =>
                \A x \in Elems(ListAt(h.src)) : x.run # h.run
          /\ \A g \in Frames : (g.kind = "exec" /\ g.mode = "normal") =>
                \A x \in Elems(ListAt(g.ar)) : x.run # h.run
          /\ \A r \in HandlerLists(h) : \A x \in Elems(ListAt(r)) :
                x.run # h.run => x \in Elems(h.seed)

\* a handler run and the task it copied from have both appended since the copy
C10_Witness ==
    \E h \in Handlers :
        /\ h.src # NotAList
        /\ Len(ListAt(h.src)) > Len(h.seed)
        /\ Len(ListAt(h.ar)) > Len(h.seed) + 1

\* the script of t's run is about to raise: it raises itself, it calls an
\* operation its mode does not have, or the call it made has raised
ScriptFaults(t) ==
    \/ /\ At(t, "exec", "exec")
       /\ \/ Top(t).code \in {"raise", "record_raise"}
          \/ Top(t).code \in {"device", "subtask"} /\ Restricted(Top(t).mode)
    \/ At(t, "exec", "callwait") /\ ret[t].out = "exc"

\* C11: the step in which a script fault is caught appends exactly one
\* error record of that run and step to the run's history and nothing else;
\* the run stays on the call stack with its outcome still ongoing and
\* nothing is handed to a caller; it goes on with step + 1 when the budget
\* has a step left, and otherwise leaves the loop by the budget.
C11_FaultContinues ==
    [][\A t \in Threads :
         (ScriptFaults(t) /\ cs'[t] # cs[t]) =>
            LET f == Top(t)
                g == TopOf(cs', t)
            IN /\ Len(cs'[t]) = Len(cs[t])
               /\ \E e \in Causes : heap' = HeapAppend(heap, f.ar, ErrRec(e, f.run, f.step))
               /\ g.run = f.run /\ g.ar = f.ar /\ g.status = "ongoing"
               /\ ret'[t].out = "none"
               /\ IF f.step + 1 < f.maxSteps
                  THEN g.step = f.step + 1 /\ g.pc \in {"plan", "gatewait"}
                  ELSE g.step = f.step /\ g.pc = "after"]_vars

\* a run whose step 0 raised is at the planner call of step 1
C11_Witness ==
    \E t \in Threads :
        /\ At(t, "exec", "plan") /\ Top(t).step = 1
        /\ CountOf(ListAt(Top(t).ar), "error", Top(t).run) = 1
        /\ Top(t).execs = 1

InLoop(f) == f.kind = "exec" /\ f.pc \in {"gatewait", "plan", "exec", "callwait"}
PastLoop(f) == f.kind = "exec" /\ f.pc \in {"after", "concwait", "finally"}

\* a run is in its loop only with the outcome ongoing; a run that ended
\* with another outcome made its last planner call in the step that set it
OutcomeInv ==
    /\ \A f \in Frames : (InLoop(f) => f.status = "ongoing")
                         /\ (f.kind = "exec" /\ f.status # "ongoing" => PastLoop(f))
    /\ \A t \in Threads : Ended(t) /\ ret[t].fr.kind = "exec" /\ ret[t].fr.status # "ongoing" =>
          /\ ret[t].fr.step + 1 = ret[t].fr.plans
          /\ ret[t].fr.status \in {"finished", "failed", "infeasible"}
          /\ (ret[t].fr.finished_step = ret[t].fr.step) = (ret[t].fr.status = "finished")

OutcomeStep ==
    \A t \in Threads :
        (Running(t) /\ Top(t).kind = "exec" /\ cs'[t] # cs[t] /\ Len(cs'[t]) = Len(cs[t])) =>
           LET f == Top(t)
               g == TopOf(cs', t)
           IN /\ (f.status = "ongoing" /\ g.status # "ongoing") =>
                    (f.pc = "exec" /\ ~ScriptFaults(t) /\ g.pc = "after" /\ g.step = f.step)
              /\ (InLoop(f) /\ g.pc = "after" /\ f.step + 1 < f.maxSteps) =>
                    (g.status # "ongoing" /\ ~ScriptFaults(t))
              /\ PastLoop(f) => (g.plans = f.plans /\ g.execs = f.execs /\ g.status = f.status)

\* C13: a run is in its loop only with the outcome ongoing, and a run whose
\* outcome is not ongoing is past its loop.  A step of a run sets an
\* outcome other than ongoing only when its script completes without
\* fault, and that step leaves the loop; a step that leaves the loop before
\* the budget is used up has set such an outcome; once a run is past its
\* loop it makes no planner call and executes no script.
C13_TerminalStops == []OutcomeInv /\ [][OutcomeStep]_vars

\* a run with a budget of more than one step has ended after its step 0
\* left the outcome failed
C13_Witness ==
    \E t \in Threads :
        /\ Ended(t) /\ ret[t].fr.kind = "exec" /\ ret[t].fr.status = "failed"
        /\ ret[t].fr.step = 0 /\ ret[t].fr.maxSteps > 1
        /\ ret[t].fr.plans = 1 /\ ret[t].fr.execs = 1

\* the run of the frame f ended finished in step 0 without a result
IdleRun(f) == f.status = "finished" /\ f.finished_step = 0 /\ f.results = <<>>

\* C14 (as claimed): the idle counter changes only in the step that
\* completes the loop of a depth-0 run; that step adds 1 when the run
\* finished in step 0 with no result and sets the counter to 0 for every
\* other depth-0 run; the completion of a run at depth >= 1 leaves it.
C14_IdleAccounting ==
    [][/\ \A t \in Threads :
            (At(t, "exec", "after") /\ cs'[t] # cs[t]) =>
               idle' = IF Top(t).depth # 0 THEN idle
                       ELSE IF IdleRun(Top(t)) THEN idle + 1 ELSE 0
       /\ idle' # idle =>
            \E t \in Threads : At(t, "exec", "after") /\ Top(t).depth = 0 /\ cs'[t] # cs[t]]_vars

\* the sleep as the claim gives it
RECURSIVE Pow2(_)
Pow2(k) == IF k = 0 THEN 1 ELSE 2 * Pow2(k - 1)
ClaimedSleep(k) == IF Pow2(k) <= 600 THEN Pow2(k) ELSE 600

SleepFacts ==
    /\ SleepTime(0) = 1 /\ SleepTime(5) = 32 /\ SleepTime(10) = 600
    /\ \A k \in 0..MaxIdle : SleepTime(k) = ClaimedSleep(k) /\ SleepTime(k) <= 600
    /\ \A k \in 0..(MaxIdle - 1) : SleepTime(k) <= SleepTime(k + 1)

MostRecent(s, n) ==
    IF Len(s) <= n THEN s ELSE [i \in 1..n |-> s[Len(s) - n + i]]

\* C16: the history a planner call is given is the run's history as it is
\* when the step reads it, cut to its most recent HistMaxLen entries in
\* their order when it holds more and unchanged otherwise; it never holds
\* more than HistMaxLen entries.
C16_PlannerSeesRecent ==
    /\ [](\A f \in Frames : Len(f.given) <= HistMaxLen)
    /\ [][\A t \in Threads :
            (At(t, "exec", "plan") /\ cs'[t] # cs[t]) =>
               /\ TopOf(cs', t).plans = Top(t).plans + 1
               /\ TopOf(cs', t).given = MostRecent(HeapGet(heap, Top(t).ar), HistMaxLen)]_vars

\* a planner call was given a history cut to the cap: the start record of
\* the run is no longer in it
C16_Witness ==
    \E f \in Frames :
        /\ f.kind = "exec" /\ f.plans >= 2 /\ Len(f.given) = HistMaxLen
        /\ Rec("start", f.run, -1) \notin Elems(f.given)

\* C17 (as claimed): the history of every run that has made its start
\* record, the history a conclusion run is started on included, holds at
\* most HistMaxLen entries.
C17_HistoryCapped ==
    \A f \in Frames :
        (f.kind = "exec" /\ f.pc # "start") => Len(ListAt(f.ar)) <= HistMaxLen

\* a run called from a run sits right above it on the call stack, one
\* level deeper; a run at depth >= 3 never gets past its depth check
DepthInv ==
    /\ \A t \in Threads : \A i \in 1..(Len(cs[t]) - 1) :
          (cs[t][i].kind = "exec" /\ cs[t][i+1].kind = "exec") =>
              cs[t][i+1].depth = cs[t][i].depth + 1
    /\ \A f \in Frames \cup {ret[t].fr : t \in Threads} :
          (f.kind = "exec" /\ f.depth >= MaxDepth) =>
              (f.pc = "start" /\ f.step = -1 /\ f.plans = 0 /\ f.execs = 0)

\* an entry is put on the task stack only by a run at depth < 3 that passes
\* its depth check
DepthStep ==
    Len(stack') > Len(stack) =>
        \E t \in Threads :
            /\ At(t, "exec", "start") /\ Top(t).depth < MaxDepth
            /\ Len(cs'[t]) = Len(cs[t]) /\ TopOf(cs', t).pc # "start"
            /\ stack' = Append(stack, [task |-> Top(t).task, ar |-> Top(t).ar])

\* C18: a sub-task run and a conclusion run are called at the depth of
\* their caller + 1; a run at depth >= 3 makes no step, no planner call and
\* no script execution, and puts no entry on the task stack.
C18_DepthBounded == []DepthInv /\ [][DepthStep]_vars

\* the conclusion run of a run at depth 2 was called at depth 3 and refused
C18_Witness ==
    \E t \in Threads :
        /\ At(t, "exec", "concwait") /\ Top(t).depth = 2
        /\ ret[t].fr.kind = "exec" /\ ret[t].fr.mode = "conclude_task"
        /\ ret[t].fr.depth = 3 /\ ret[t].val = DepthError(ret[t].fr.run)

\* C19 (as claimed): when the sub-task call of a normal run's script has
\* come back and was not refused for its depth, the nested run was a normal
\* run one level below its caller that made its start record, put its entry
\* on the task stack and ran its loop, and the call returned the results of
\* that run to the script.
C19_SubtaskRuns ==
    \A t \in Threads :
        (At(t, "exec", "callwait") /\ Top(t).code = "subtask" /\ Ended(t)
            /\ ret[t].fr.depth < MaxDepth) =>
           /\ ret[t].fr.kind = "exec" /\ ret[t].fr.mode = "normal"
           /\ ret[t].fr.depth = Top(t).depth + 1
           /\ ret[t].fr.pc # "start" /\ ret[t].fr.plans >= 1
           /\ ret[t].out = "ret" /\ ret[t].val = ret[t].fr.results

IsRestricted(f) == f.kind = "exec" /\ f.mode \in {"handle_message", "conclude_task"}
\* the script of t's run, in a mode without these operations, is about to
\* call device delegation or sub-task execution
CallsDenied(t) ==
    At(t, "exec", "exec") /\ IsRestricted(Top(t)) /\ Top(t).code \in {"device", "subtask"}

\* no device call has completed in a restricted run, and the only call
\* found under one is a handle_message call
DeniedInv ==
    /\ \A f \in Frames \cup {ret[t].fr : t \in Threads} :
          IsRestricted(f) => f.bound \cap {"device", "subtask"} = {}
    /\ \A t \in Threads : \A i \in 1..(Len(cs[t]) - 1) :
          IsRestricted(cs[t][i]) => cs[t][i+1].kind = "hm"

DeniedStep ==
    \A t \in Threads :
        (CallsDenied(t) /\ cs'[t] # cs[t]) =>
           LET f == Top(t)
               g == TopOf(cs', t)
           IN /\ Len(cs'[t]) = Len(cs[t]) /\ nextRun' = nextRun /\ stack' = stack
              /\ heap' = HeapAppend(heap, f.ar, ErrRec("mode", f.run, f.step))
              /\ g.run = f.run /\ g.bound = f.bound /\ g.status = "ongoing"
              /\ g.execs = f.execs + 1
              /\ IF f.step + 1 < f.maxSteps
                 THEN g.step = f.step + 1 /\ g.pc = "plan"
                 ELSE g.step = f.step /\ g.pc = "after"

C21_ConclusionLaunched ==
    [][\A t \in Threads :
         (At(t, "exec", "after") /\ cs'[t] # cs[t]) =>
            LET f == Top(t)
                launched == /\ Len(cs'[t]) = Len(cs[t]) + 1
                            /\ TopOf(cs', t).kind = "exec"
                            /\ TopOf(cs', t).mode = "conclude_task"
                            /\ TopOf(cs', t).depth = f.depth + 1
            IN launched <=> (f.mode = "normal" /\ ~IdleRun(f))]_vars

\* C22: whatever way the conclusion run ended (a return, the depth
\* refusal, a fault), the step in which its caller takes it back makes the
\* caller return the results of its own run; with all calls on one thread
\* that step takes the caller's entry, the top one, off the task stack.
C22_ConclusionContained ==
    [][\A t \in Threads :
         (At(t, "exec", "concwait") /\ cs'[t] # cs[t]) =>
            /\ Len(cs'[t]) = Len(cs[t]) - 1
            /\ ret'[t].out = "ret" /\ ret'[t].val = Top(t).results
            /\ ret'[t].fr.run = Top(t).run
            /\ NoTransportCalled =>
                  /\ Len(stack) > 0 /\ stack[Len(stack)].task = Top(t).task
                  /\ stack' = SubSeq(stack, 1, Len(stack) - 1)]_vars

\* a run has returned its results after its conclusion run raised
C22_Witness ==
    \E t \in Threads :
        /\ ~Running(t) /\ ret[t].out = "ret" /\ ret[t].fr.kind = "exec"
        /\ ret[t].fr.warned /\ ret[t].val = ret[t].fr.results
        /\ stack = <<>>

Recording == {"record", "record_finish", "record_raise"}
AllFrames == Frames \cup {ret[t].fr : t \in Threads}

\* the results of a run are result records of that run, in the order of its
\* steps; a run that got past its depth check and returned has handed
\* exactly them to its caller
ResultsInv ==
    /\ \A f \in AllFrames : f.kind = "exec" =>
          /\ \A i \in 1..Len(f.results) :
                /\ f.results[i].k = "result" /\ f.results[i].run = f.run
                /\ f.results[i].step \in 0..f.step
          /\ \A i \in 1..(Len(f.results) - 1) : f.results[i].step < f.results[i+1].step
    /\ \A t \in Threads :
          (ret[t].out = "ret" /\ ret[t].fr.kind = "exec" /\ ret[t].fr.pc # "start") =>
              ret[t].val = ret[t].fr.results

\* the results of a run grow by one record in the step in which its script
\* records one, and change in no other step of the run
ResultsStep ==
    \A t \in Threads :
        (Running(t) /\ Top(t).kind = "exec" /\ cs'[t] # cs[t]) =>
           LET f == Top(t)
               g == IF Len(cs'[t]) >= Len(cs[t]) THEN cs'[t][Len(cs[t])] ELSE ret'[t].fr
           IN /\ g.run = f.run
              /\ g.results = IF f.pc = "exec" /\ f.code \in Recording
                             THEN Append(f.results, Rec("result", f.run, f.step))
                             ELSE f.results

ScopeInv ==
    \A f \in AllFrames : f.kind = "exec" =>
        /\ f.bound \subseteq Scripts
        /\ Cardinality(f.bound) <= f.execs
        /\ f.pc = "start" => f.bound = {}

\* no step of a run takes a binding away; a script that completes leaves
\* its bindings, a script that raises leaves none
ScopeStep ==
    \A t \in Threads :
        (Running(t) /\ Top(t).kind = "exec" /\ cs'[t] # cs[t]) =>
           LET f == Top(t)
               g == IF Len(cs'[t]) >= Len(cs[t]) THEN cs'[t][Len(cs[t])] ELSE ret'[t].fr
               completes == \/ f.pc = "exec" /\ ~ScriptFaults(t) /\ Len(cs'[t]) = Len(cs[t])
                            \/ f.pc = "callwait" /\ ret[t].out # "exc"
           IN /\ f.bound \subseteq g.bound
              /\ completes => g.bound = f.bound \cup {f.code}
              /\ ~completes => g.bound = f.bound

\* C24: within a run the variable scope only grows: the bindings of every
\* script that completed without fault stay in it for all later steps, a
\* script that raised adds none, and a run starts with an empty scope,
\* whatever earlier runs and the runs below it on the call stack hold.
C24_ScopeAdditive == []ScopeInv /\ [][ScopeStep]_vars

\* a run in its second step holds the bindings of both its scripts
C24_Witness ==
    \E f \in AllFrames :
        /\ f.kind = "exec" /\ f.step = 1 /\ f.execs = 2
        /\ Cardinality(f.bound) = 2

\* the run of f has executed the step-limit report of agent.py:334 (which
\* raises in place of appending its record)
LimitReported(f) == f.kind = "exec" /\ f.pc = "finally" /\ f.pend.out = "exc"

InStep(t, mode) ==
    /\ Running(t) /\ Top(t).kind = "exec" /\ Top(t).mode = mode
    /\ Top(t).pc \in {"plan", "exec"}

\* C26 (as claimed): a normal run is never inside a step while the run of
\* a handle_message call on another thread is inside one.
C26_GateSerializes ==
    \A t, h \in Threads :
        ~(t # h /\ InStep(t, "normal") /\ InStep(h, "handle_message"))

\* tasks of the runs that are past their push, on any thread
LiveTasks == UNION {{PushedTasks(t)[i] : i \in 1..Len(PushedTasks(t))} : t \in Threads}

\* C27 (as claimed): every entry of the task stack belongs to a run that
\* has not yet exited, so what get_current_task_info reports is the task of
\* a run in progress, and once every run has exited the stack is empty.
C27_OwnEntryRemoved ==
    /\ \A i \in 1..Len(stack) : stack[i].task \in LiveTasks
    /\ (\A t \in Threads : ~Running(t)) => stack = <<>>

\* runs in progress whose entry is the top of the task stack
TopRuns ==
    {f \in Frames : /\ f.kind = "exec" /\ f.pc # "start" /\ Len(stack) > 0
                    /\ f.task = stack[Len(stack)].task}

\* C28 (as claimed): the copy a handle_message call takes is the content,
\* at that moment, of the history the running task is appending to, its
\* last record included, whether or not that history has been cut.
C28_SnapshotCurrent ==
    [][\A t \in Threads :
         (At(t, "hm", "info") /\ cs'[t] # cs[t]) =>
            \A f \in TopRuns : cs'[t][Len(cs[t])].seed = HeapGet(heap, f.ar)]_vars

\* the runs the driver loop starts: execute_task(task) with no history given
DriverRuns == {f \in Frames : f.kind = "exec" /\ f.task = JobTask /\ f.mode = "normal"}

\* C29 (as claimed): runs started without a history do not share one: the
\* history given to the first planner call of such a run is its own start
\* record alone, and no history object holds records of two runs.
C29_RunsShareNoHistory ==
    /\ \A f \in DriverRuns : f.plans = 1 => f.given = <<Rec("start", f.run, -1)>>
    /\ \A r1, r2 \in Elems(HeapGet(heap, DefaultList)) : r1.run = r2.run

\* a step of a call in progress on thread t: every action but the arrival
\* of a new call
ThreadStep(t) ==
    \/ ExecStart(t)
    \/ \E thought \in BOOLEAN, code \in Codes : ExecPlan(t, thought, code)
    \/ ExecScript(t)
    \/ ExecCallReturn(t)
    \/ ExecAfter(t)
    \/ ExecConcReturn(t)
    \/ ExecFinally(t)
    \/ HandleAcquire(t)
    \/ HandleClear(t)
    \/ HandleExecute(t)
    \/ HandleReturn(t)
    \/ HandleRelease(t)

\* every thread that can take a step is scheduled in the end, and every
\* planner call returns (ExecPlan is a step of the thread)
SpecFair == Init /\ [][Next]_vars /\ \A t \in Threads : WF_vars(ThreadStep(t))

\* a handle_message call is in progress on thread t
InHandler(t) == \E i \in 1..Len(cs[t]) : cs[t][i].kind = "hm"

\* thread t waits for the message lock while holding it
SelfLocked(t) == At(t, "hm", "acquire") /\ lock = t

\* C30 (as claimed): every handle_message call exits in the end with the
\* message lock released, a closed gate is opened again, and no thread
\* waits forever for the lock it holds.
C30_HandleExits ==
    /\ \A t \in Threads : InHandler(t) ~> (~InHandler(t) /\ lock # t)
    /\ ~gate ~> gate
    /\ \A t \in Threads : SelfLocked(t) ~> ~SelfLocked(t)

====
